---- MODULE Spec2Model ----
(***************************************************************************)
(* A model of the feature export / temporal split subsystem, of the        *)
(* prediction assembly logic, of the dashboard and of the schema checks of *)
(* f1sqlmlops.                                                             *)
(*                                                                         *)
(* Every action is one whole synchronous call of the program; `call`       *)
(* records the last call that completed: its operation, whether it         *)
(* returned or raised, and what it returned. Only the dashboard serves     *)
(* several sessions at once: a script run of a session is two steps, the   *)
(* cached loaders and then the page.                                       *)
(***************************************************************************)
EXTENDS Integers, Sequences, FiniteSets, TLC

VARIABLES
    environ,     \* os.environ: the three split variables, as comma separated items
    config,      \* f1sqlmlops.config.config: the Config attributes once imported
    warehouse,   \* the DuckDB warehouse: main_marts.fct_features_pre_race
    models_dir,  \* config.MODELS_DIR: the pickled classifiers present on disk
    output_dir,  \* the files batch_predict has written: file name -> content
    call,        \* the last completed call: [op, status, error, value]
    cache,       \* the dashboard's st.cache_resource / st.cache_data entries
    session,     \* the dashboard's user sessions: where each script run is
    parquet_dir  \* config.PARQUET_DIR: the parquet files of the raw tables

vars == <<environ, config, warehouse, models_dir, output_dir, call, cache, session,
          parquet_dir>>

----------------------------------------------------------------------------
(* Bounds of the model *)

\* the first season of the sample feature table of the tests
FirstYear == 2015
\* the last season the model considers
LastYear == 2018
\* the largest number of items of VAL_YEARS and of TEST_YEARS in the environment
MaxYearList == 1
\* the largest number of rows of the feature table
MaxRows == 2
\* the largest number of columns of a table given to get_feature_columns
MaxCols == 3

Years == FirstYear..LastYear

----------------------------------------------------------------------------
(* Values *)

Range(s) == {s[i] : i \in 1..Len(s)}

SeqsUpTo(S, n) == UNION {[1..k -> S] : k \in 0..n}

NonEmptySeqsUpTo(S, n) == UNION {[1..k -> S] : k \in 1..n}

Min(S) == CHOOSE x \in S : \A y \in S : x <= y

Max(S) == CHOOSE x \in S : \A y \in S : y <= x

\* pd.DataFrame: the column index and the rows, each row a mapping column -> value
DataFrame(columns, rows) == [columns |-> columns, rows |-> rows]

\* pd.DataFrame(): no columns, no rows
EmptyDataFrame == DataFrame(<<>>, <<>>)

\* df[mask]: the rows whose mask entry is True, in the order of df, with df's columns
Filter(df, mask) ==
    LET kept == {i \in 1..Len(df.rows) : mask[i]}
        nth(k) == CHOOSE i \in kept : Cardinality({j \in kept : j < i}) = k - 1
    IN  DataFrame(df.columns, [k \in 1..Cardinality(kept) |-> df.rows[nth(k)]])

\* df.sort_values(column, ascending=...): the rows by their value of the column,
\* rows of equal value in the order they had
sort_values(df, column, ascending) ==
    LET n == Len(df.rows)
        before(i, j) ==
            \/ IF ascending THEN df.rows[i][column] < df.rows[j][column]
                             ELSE df.rows[i][column] > df.rows[j][column]
            \/ df.rows[i][column] = df.rows[j][column] /\ i < j
        nth(k) == CHOOSE i \in 1..n : Cardinality({j \in 1..n : before(j, i)}) = k - 1
    IN  DataFrame(df.columns, [k \in 1..n |-> df.rows[nth(k)]])

\* series.unique(): the values of a column in the order of their first row
unique(df, column) ==
    LET firsts == {i \in 1..Len(df.rows) :
                      \A j \in 1..(i - 1) : df.rows[j][column] # df.rows[i][column]}
        nth(k) == CHOOSE i \in firsts : Cardinality({j \in firsts : j < i}) = k - 1
    IN  [k \in 1..Cardinality(firsts) |-> df.rows[nth(k)][column]]

\* a missing value
NaN == "NaN"

\* pd.notna(value)
notna(value) == value # NaN

\* left.merge(right, on=on, how='left'): each row of left with each row of right
\* of the same key, in right's order, or once with missing values when there is
\* none; the columns of left, then those of right but the key
merge(left, right, on) ==
    LET added == SelectSeq(right.columns, LAMBDA col : col # on)
        joined(l, r) == [col \in DOMAIN l \cup Range(added) |->
                            IF col \in DOMAIN l THEN l[col] ELSE r[col]]
        unmatched(l) == [col \in DOMAIN l \cup Range(added) |->
                            IF col \in DOMAIN l THEN l[col] ELSE NaN]
        matches(l) == SelectSeq(right.rows, LAMBDA r : r[on] = l[on])
        rows_of(l) == IF Len(matches(l)) = 0 THEN <<unmatched(l)>>
                      ELSE [k \in 1..Len(matches(l)) |-> joined(l, matches(l)[k])]
        RECURSIVE rows_from(_)
        rows_from(i) == IF i > Len(left.rows) THEN <<>>
                        ELSE rows_of(left.rows[i]) \o rows_from(i + 1)
    IN  DataFrame(left.columns \o added, rows_from(1))

\* nothing has been called yet
NoCall == [op |-> "none", status |-> "none", error |-> "none", value |-> EmptyDataFrame]

Returned(op, value) == [op |-> op, status |-> "returned", error |-> "none", value |-> value]

Raised(op, error) == [op |-> op, status |-> "raised", error |-> error, value |-> EmptyDataFrame]

----------------------------------------------------------------------------
(* config.py: the split configuration read from the environment at import *)

\* one comma separated item of an environment value: digits, or other text
IntItem(y) == [text |-> "digits", value |-> y]

JunkItem == [text |-> "other", value |-> 0]

Items == {IntItem(y) : y \in Years} \cup {JunkItem}

\* int(y.strip()) raises ValueError on an item that is no integer literal
CanParseInt(item) == item.text = "digits"

ParseInt(item) == item.value

Environments ==
    [TRAIN_END_YEAR : Items,
     VAL_YEARS : NonEmptySeqsUpTo(Items, MaxYearList),
     TEST_YEARS : NonEmptySeqsUpTo(Items, MaxYearList)]

ConfigUnloaded ==
    [status |-> "unloaded", TRAIN_END_YEAR |-> 0, VAL_YEARS |-> <<>>, TEST_YEARS |-> <<>>]

ConfigImportError ==
    [status |-> "error", TRAIN_END_YEAR |-> 0, VAL_YEARS |-> <<>>, TEST_YEARS |-> <<>>]

\* the class body of Config: the attributes are the parsed items, as given
ConfigFromEnv(env) ==
    IF /\ CanParseInt(env.TRAIN_END_YEAR)
       /\ \A i \in 1..Len(env.VAL_YEARS) : CanParseInt(env.VAL_YEARS[i])
       /\ \A i \in 1..Len(env.TEST_YEARS) : CanParseInt(env.TEST_YEARS[i])
    THEN [status |-> "loaded",
          TRAIN_END_YEAR |-> ParseInt(env.TRAIN_END_YEAR),
          VAL_YEARS |-> [i \in 1..Len(env.VAL_YEARS) |-> ParseInt(env.VAL_YEARS[i])],
          TEST_YEARS |-> [i \in 1..Len(env.TEST_YEARS) |-> ParseInt(env.TEST_YEARS[i])]]
    ELSE ConfigImportError

\* import f1sqlmlops.config
LoadConfig ==
    /\ config.status = "unloaded"
    /\ config' = ConfigFromEnv(environ)
    /\ call' = IF config'.status = "loaded"
               THEN Returned("import_config", EmptyDataFrame)
               ELSE Raised("import_config", "ValueError")
    /\ UNCHANGED <<environ, warehouse, models_dir, output_dir, cache, session, parquet_dir>>

----------------------------------------------------------------------------
(* export_features.py *)

\* the columns of fct_features_pre_race the model carries
FeatureTableColumns ==
    <<"result_id", "race_id", "driver_id", "circuit_id", "year", "round",
      "grid_position", "qualifying_position", "target_top_10", "target_dnf">>

\* the values of the one feature column the model carries
GridPositions == {1, 2}

\* a row of fct_features_pre_race: one race a season, each on a circuit of its
\* own, a driver a result, the results alternating between the two grid positions
\* (qualified as they start) and between a top-10 finish and a retirement
FeatureRow(id, year) ==
    [result_id |-> id, race_id |-> year - FirstYear + 1, driver_id |-> id,
     circuit_id |-> year - FirstYear + 1, year |-> year, round |-> 1,
     grid_position |-> IF id % 2 = 1 THEN 1 ELSE 2,
     qualifying_position |-> IF id % 2 = 1 THEN 1 ELSE 2,
     target_top_10 |-> id % 2, target_dnf |-> (id + 1) % 2]

\* the query result: ORDER BY year, round, result_id
IsOrdered(rows) ==
    \A i, j \in 1..Len(rows) :
        i < j => \/ rows[i].year < rows[j].year
                 \/ rows[i].year = rows[j].year /\ rows[i].result_id < rows[j].result_id

\* the tables the query can answer with: result_id is unique, the rows are ordered
FeatureTables ==
    {df \in {DataFrame(FeatureTableColumns, [i \in 1..Len(ys) |-> FeatureRow(i, ys[i])]) :
                ys \in SeqsUpTo(Years, MaxRows)} : IsOrdered(df.rows)}

\* a feature table built without the year column: one result, every other column
TableWithoutYear ==
    LET kept == SelectSeq(FeatureTableColumns, LAMBDA col : col # "year")
        full == FeatureRow(1, FirstYear)
    IN  DataFrame(kept, <<[col \in Range(kept) |-> full[col]]>>)

\* the elements of a set of numbers, rising
Ascending(S) ==
    [k \in 1..Cardinality(S) |-> CHOOSE v \in S : Cardinality({u \in S : u < v}) = k - 1]

DriverIds == 1..MaxRows

RaceIds == {y - FirstYear + 1 : y \in Years}

\* main_marts.dim_driver with the drivers `ids`
dim_driver(ids) ==
    DataFrame(<<"driver_id", "full_name", "nationality">>,
              [k \in 1..Cardinality(ids) |->
                  [driver_id |-> Ascending(ids)[k],
                   full_name |-> "Driver No. " \o ToString(Ascending(ids)[k]),
                   nationality |-> "British"]])

\* main_marts.dim_driver with the drivers `ids`, where the driver `id` has a
\* second entry
dim_driver_twice(ids, id) ==
    DataFrame(dim_driver(ids).columns,
              Append(dim_driver(ids).rows,
                     [driver_id |-> id, full_name |-> "Driver No. " \o ToString(id) \o " Jr",
                      nationality |-> "British"]))

\* main_marts.dim_circuit with the circuits `ids`
dim_circuit(ids) ==
    DataFrame(<<"circuit_id", "circuit_name", "location", "country">>,
              [k \in 1..Cardinality(ids) |->
                  [circuit_id |-> Ascending(ids)[k],
                   circuit_name |-> "Circuit de " \o ToString(Ascending(ids)[k]),
                   location |-> "Spa", country |-> "Belgium"]])

\* main_marts.dim_race with the races `ids`
dim_race(ids) ==
    DataFrame(<<"race_id", "race_name", "year", "round", "circuit_id">>,
              [k \in 1..Cardinality(ids) |->
                  [race_id |-> Ascending(ids)[k],
                   race_name |-> "Grand Prix " \o ToString(Ascending(ids)[k]),
                   year |-> FirstYear + Ascending(ids)[k] - 1, round |-> 1,
                   circuit_id |-> Ascending(ids)[k]]])

\* the dimension tables of a warehouse: each was built when only the first so
\* many drivers, circuits and races were known, and misses the later ones
DimTables ==
    {[drivers |-> dim_driver(1..d), circuits |-> dim_circuit(1..c),
      races |-> dim_race(1..r)] :
        d \in 0..Cardinality(DriverIds), c \in 0..Cardinality(RaceIds),
        r \in 0..Cardinality(RaceIds)}

\* dimension tables that know every driver, circuit and race, and have two
\* entries for one driver
TwiceDimTables ==
    {[drivers |-> dim_driver_twice(DriverIds, id), circuits |-> dim_circuit(RaceIds),
      races |-> dim_race(RaceIds)] : id \in DriverIds}

\* dimension tables that know every driver, circuit and race
FullDimTables ==
    [drivers |-> dim_driver(DriverIds), circuits |-> dim_circuit(RaceIds),
     races |-> dim_race(RaceIds)]

\* nothing cached: no run of the dashboard has called a loader
NoCache == [models |-> [cached |-> FALSE], data |-> [cached |-> FALSE]]

\* no user session of the dashboard
NoSessions == <<>>

\* config.PARQUET_DIR does not exist
NoParquetDir == [exists |-> FALSE]

\* the dimension tables of a warehouse that has none of them
NoDimTables == <<>>

\* the warehouse answers the query with the table, or the query fails
Warehouses ==
    {[status |-> "ok", table |-> t, dim_tables |-> FullDimTables] :
        t \in FeatureTables \cup {TableWithoutYear}}
        \cup {[status |-> "unreachable", table |-> EmptyDataFrame,
               dim_tables |-> FullDimTables]}

\* train_mask with the comparison made strict
train_mask_strict(cfg, df) ==
    [i \in 1..Len(df.rows) |-> df.rows[i].year < cfg.TRAIN_END_YEAR]

\* df['year'] <= config.TRAIN_END_YEAR
train_mask(cfg, df) == [i \in 1..Len(df.rows) |-> df.rows[i].year <= cfg.TRAIN_END_YEAR]

\* df['year'].isin(config.VAL_YEARS)
val_mask(cfg, df) == [i \in 1..Len(df.rows) |-> df.rows[i].year \in Range(cfg.VAL_YEARS)]

\* df['year'].isin(config.TEST_YEARS)
test_mask(cfg, df) == [i \in 1..Len(df.rows) |-> df.rows[i].year \in Range(cfg.TEST_YEARS)]

Splits(cfg, df) ==
    [train |-> Filter(df, train_mask(cfg, df)),
     val |-> Filter(df, val_mask(cfg, df)),
     test |-> Filter(df, test_mask(cfg, df))]

\* export_features that answers a failed query with three empty splits
ExportFeaturesResult_swallowing(op) ==
    IF warehouse.status # "ok"
    THEN Returned(op, Splits(config, DataFrame(FeatureTableColumns, <<>>)))
    ELSE IF "year" \notin Range(warehouse.table.columns)
    THEN Raised(op, "KeyError")
    ELSE Returned(op, Splits(config, warehouse.table))

\* export_features(db_path): the query, the three masks, the three copies; a
\* failing query and a frame without the year column both end in the except
\* clause, which raises the error again
ExportFeaturesResult(op) ==
    IF warehouse.status # "ok"
    THEN Raised(op, "duckdb.Error")
    ELSE IF "year" \notin Range(warehouse.table.columns)
    THEN Raised(op, "KeyError")
    ELSE Returned(op, Splits(config, warehouse.table))

ExportFeatures ==
    /\ config.status = "loaded"
    /\ call' = ExportFeaturesResult("export_features")
    /\ UNCHANGED <<environ, config, warehouse, models_dir, output_dir, cache, session, parquet_dir>>

\* exclude_cols without the two target columns
exclude_cols_without_targets ==
    {"result_id", "race_id", "driver_id", "constructor_id", "circuit_id",
     "year", "round", "race_date"}

\* get_feature_columns(df): the columns of df outside the exclusion set, in df's
\* order, and the two target names
exclude_cols ==
    {"result_id", "race_id", "driver_id", "constructor_id", "circuit_id",
     "year", "round", "race_date", "target_top_10", "target_dnf"}

\* get_feature_columns with the kept columns in the opposite order
get_feature_columns_reversed(df) ==
    LET kept == SelectSeq(df.columns, LAMBDA col : col \notin exclude_cols)
    IN  [feature_cols |-> [i \in 1..Len(kept) |-> kept[Len(kept) + 1 - i]],
         target_cols |-> <<"target_top_10", "target_dnf">>]

get_feature_columns(df) ==
    [feature_cols |-> SelectSeq(df.columns, LAMBDA col : col \notin exclude_cols),
     target_cols |-> <<"target_top_10", "target_dnf">>]

----------------------------------------------------------------------------
(* predict.py *)

ModelNames == {"top10", "dnf"}

\* probabilities, in hundredths
Probs == {0, 50, 51, 100}

\* a fitted classifier pipeline: its classes_ and, for each feature vector, the
\* probability of class 1 (a pipeline fitted on a single class has one column)
Models ==
    [classes : {<<0, 1>>}, p : [GridPositions -> Probs]]
        \cup [classes : {<<0>>, <<1>>}, p : {[g \in GridPositions |-> 100]}]

\* model.predict_proba(X), for one row of X: one probability per class
predict_proba(model, x) ==
    IF Len(model.classes) = 1
    THEN <<100>>
    ELSE <<100 - model.p[x.grid_position], model.p[x.grid_position]>>

\* model.predict(X), for one row of X: the class of the largest probability (the
\* first of them on a tie)
predict(model, x) ==
    LET proba == predict_proba(model, x)
        best == CHOOSE i \in 1..Len(proba) :
                    /\ \A j \in 1..Len(proba) : proba[j] <= proba[i]
                    /\ \A j \in 1..Len(proba) : proba[j] = proba[i] => i <= j
    IN  model.classes[best]

\* the contents of the models directory: a mapping from the names of the pickles
\* present to the classifiers they hold
ModelDirs == UNION {[names -> Models] : names \in SUBSET ModelNames}

\* load_models(models_dir)
LoadModelsResult(op) ==
    IF DOMAIN models_dir = {}
    THEN Raised(op, "FileNotFoundError")
    ELSE Returned(op, models_dir)

\* predictions[name] = values: a new last column, or the values of column name replaced
WithColumn(df, name, values) ==
    DataFrame(IF name \in Range(df.columns) THEN df.columns ELSE Append(df.columns, name),
              [i \in 1..Len(df.rows) |->
                  [c \in DOMAIN df.rows[i] \cup {name} |->
                      IF c = name THEN values[i] ELSE df.rows[i][c]]])

\* features[feature_cols]
Project(df, columns) ==
    DataFrame(columns,
              [i \in 1..Len(df.rows) |-> [c \in Range(columns) |-> df.rows[i][c]]])

\* proba[:, 0] of a single column, proba[:, 1] otherwise
PositiveColumn(proba) == IF Len(proba) = 1 THEN proba[1] ELSE proba[2]

\* the two columns a present model adds to predictions
WithModelColumns(predictions, X, model, name) ==
    WithColumn(
        WithColumn(predictions, name \o "_probability",
                   [i \in 1..Len(X.rows) |-> PositiveColumn(predict_proba(model, X.rows[i]))]),
        name \o "_prediction",
        [i \in 1..Len(X.rows) |-> predict(model, X.rows[i])])

\* predict_race that fills the columns of an absent model from the other model
predict_race_fills_absent(features, models, feature_cols) ==
    LET X == Project(features, feature_cols)
        any == models[CHOOSE n \in DOMAIN models : TRUE]
        with_top10 == IF DOMAIN models = {} THEN features
                      ELSE WithModelColumns(features, X,
                               IF "top10" \in DOMAIN models THEN models["top10"] ELSE any,
                               "top10")
    IN  IF DOMAIN models = {} THEN features
        ELSE WithModelColumns(with_top10, X,
                 IF "dnf" \in DOMAIN models THEN models["dnf"] ELSE any, "dnf")

\* predict_race(features, models, feature_cols)
predict_race(features, models, feature_cols) ==
    LET X == Project(features, feature_cols)
        with_top10 == IF "top10" \in DOMAIN models
                      THEN WithModelColumns(features, X, models["top10"], "top10")
                      ELSE features
    IN  IF "dnf" \in DOMAIN models
        THEN WithModelColumns(with_top10, X, models["dnf"], "dnf")
        ELSE with_top10

\* predict_race that writes its columns into the frame it was given
features_written_in_place(features, predictions) == predictions

\* `predictions = features.copy()`: the columns are written into the copy, and
\* the frame the caller passed is after the call what it was before
features_after_predict_race(features, predictions) == features

\* the warnings predict_race logs: one for each model that is not in the mapping
predict_race_warnings(models) ==
    (IF "top10" \in DOMAIN models THEN <<>>
     ELSE <<"Top-10 model not available, skipping predictions">>)
        \o (IF "dnf" \in DOMAIN models THEN <<>>
            ELSE <<"DNF model not available, skipping predictions">>)

\* pd.concat([...], ignore_index=True) of frames with the same columns
Concat(dfs) ==
    LET RECURSIVE rows_from(_)
        rows_from(k) == IF k > Len(dfs) THEN <<>> ELSE dfs[k].rows \o rows_from(k + 1)
    IN  DataFrame(dfs[1].columns, rows_from(1))

\* an optional argument: <<>> is None, <<v>> is the value v
Optional(S) == {<<>>} \cup {<<v>> : v \in S}

\* the columns predict_from_db keeps, when present
output_cols ==
    <<"race_id", "year", "round", "driver_id", "grid_position", "qualifying_position",
      "top10_probability", "top10_prediction", "dnf_probability", "dnf_prediction",
      "target_top_10", "target_dnf">>

\* predict_from_db(db_path, models_dir, year, race_id)
PredictFromDbResult(op, year, race_id) ==
    LET exported == ExportFeaturesResult(op)
        splits == exported.value
        all_data == Concat(<<splits.train, splits.val, splits.test>>)
        by_year == IF year = <<>> THEN all_data
                   ELSE Filter(all_data, [i \in 1..Len(all_data.rows) |->
                                             all_data.rows[i].year = year[1]])
        by_race == IF race_id = <<>> THEN by_year
                   ELSE Filter(by_year, [i \in 1..Len(by_year.rows) |->
                                            by_year.rows[i].race_id = race_id[1]])
        loaded == LoadModelsResult(op)
        predictions == predict_race(by_race, loaded.value,
                                    get_feature_columns(by_race).feature_cols)
    IN  IF exported.status = "raised" THEN exported
        ELSE IF Len(by_race.rows) = 0 THEN Returned(op, EmptyDataFrame)
        ELSE IF loaded.status = "raised" THEN loaded
        ELSE Returned(op, Project(predictions,
                                  SelectSeq(output_cols,
                                            LAMBDA col : col \in Range(predictions.columns))))

\* predict_from_csv(csv_path, models_dir), the file holding the frame features
PredictFromCsvResult(op, features) ==
    LET loaded == LoadModelsResult(op)
    IN  IF loaded.status = "raised" THEN loaded
        ELSE Returned(op, predict_race(features, loaded.value,
                                       get_feature_columns(features).feature_cols))

\* the rows format_predictions_summary lists for a race
head_rows == 10

\* the columns format_predictions_summary reads from a race with a row
summary_columns ==
    {"top10_probability", "dnf_probability", "top10_prediction", "dnf_prediction"}

\* format_predictions_summary(predictions) ends in KeyError: there is no race_id
\* column, or a race to print and a model column to read that is not there
format_predictions_summary_raises(predictions) ==
    \/ "race_id" \notin Range(predictions.columns)
    \/ /\ Len(predictions.rows) > 0
       /\ ~ (summary_columns \cup {"year", "round", "driver_id", "grid_position"}
                \subseteq Range(predictions.columns))

\* the label of a row in the summary
summary_prediction(row) ==
    IF row.top10_prediction # 0 THEN "TOP-10"
    ELSE IF row.dnf_prediction # 0 THEN "DNF"
    ELSE "11th-20th"

\* format_predictions_summary(predictions): a section for each race, in the order
\* the races appear: the heading, a line for each of the first ten rows by falling
\* top-10 probability, and the statistics (means and accuracies as a total out of
\* a number of rows)
format_predictions_summary(predictions) ==
    LET races == unique(predictions, "race_id")
        section(race_id) ==
            LET of_race == Filter(predictions,
                               [i \in 1..Len(predictions.rows) |->
                                   predictions.rows[i].race_id = race_id])
                race_data == sort_values(of_race, "top10_probability", FALSE)
                n == Len(race_data.rows)
                total(column) ==
                    LET RECURSIVE sum(_)
                        sum(i) == IF i > n THEN 0 ELSE race_data.rows[i][column] + sum(i + 1)
                    IN  sum(1)
                hits(column, target) ==
                    Cardinality({i \in 1..n :
                                    race_data.rows[i][column] = race_data.rows[i][target]})
            IN  [race_id |-> race_id,
                 year |-> of_race.rows[1].year,
                 round |-> of_race.rows[1].round,
                 lines |-> [i \in 1..Min({n, head_rows}) |->
                               [driver_id |-> race_data.rows[i].driver_id,
                                grid |-> race_data.rows[i].grid_position,
                                top10_prob |-> race_data.rows[i].top10_probability,
                                dnf_prob |-> race_data.rows[i].dnf_probability,
                                prediction |-> summary_prediction(race_data.rows[i])]],
                 total_drivers |-> n,
                 predicted_top10 |-> total("top10_prediction"),
                 predicted_dnfs |-> total("dnf_prediction"),
                 top10_probability |-> [total |-> total("top10_probability"), of |-> n],
                 dnf_probability |-> [total |-> total("dnf_probability"), of |-> n],
                 accuracy |->
                    [target \in {"target_top_10", "target_dnf"}
                                   \cap Range(race_data.columns) |->
                        [hits |-> hits(IF target = "target_top_10" THEN "top10_prediction"
                                       ELSE "dnf_prediction", target),
                         of |-> n]]]
    IN  [k \in 1..Len(races) |-> section(races[k])]

----------------------------------------------------------------------------
(* batch_predict.py *)

\* batch_predict(db_path, models_dir, years)
BatchPredictResult(op, years) ==
    LET exported == ExportFeaturesResult(op)
        splits == exported.value
        all_data == Concat(<<splits.train, splits.val, splits.test>>)
        data == IF years = <<>> THEN splits.test
                ELSE Filter(all_data, [i \in 1..Len(all_data.rows) |->
                                          all_data.rows[i].year \in Range(years[1])])
        loaded == LoadModelsResult(op)
    IN  IF exported.status = "raised" THEN exported
        ELSE IF Len(data.rows) = 0 THEN Returned(op, EmptyDataFrame)
        ELSE IF loaded.status = "raised" THEN loaded
        ELSE Returned(op, predict_race(data, loaded.value,
                                       get_feature_columns(data).feature_cols))

\* <year>_round_<round>_race_<race_id>.csv
race_file(race_data) ==
    ToString(race_data.rows[1].year) \o "_round_" \o ToString(race_data.rows[1].round)
        \o "_race_" \o ToString(race_data.rows[1].race_id) \o ".csv"

\* the files batch_predict writes before the summary: all_predictions.csv and a
\* file for each race
prediction_files(predictions) ==
    LET races == unique(predictions, "race_id")
        race_data(race_id) ==
            Filter(predictions, [i \in 1..Len(predictions.rows) |->
                                    predictions.rows[i].race_id = race_id])
        RECURSIVE race_files(_)
        race_files(k) ==
            IF k > Len(races) THEN <<>>
            ELSE (race_file(race_data(races[k])) :> race_data(races[k])) @@ race_files(k + 1)
    IN  ("all_predictions.csv" :> predictions) @@ race_files(1)

----------------------------------------------------------------------------
(* evaluate.py *)

\* the pickle of a model and the target column it is scored against
model_files ==
    <<[name |-> "top10", target |-> "target_top_10",
       not_found |-> "Top-10 model not found"],
      [name |-> "dnf", target |-> "target_dnf",
       not_found |-> "DNF model not found"]>>

\* evaluate_model(model, X_test, y_test, model_name): the metrics (the accuracy
\* as hits out of rows; roc_auc and log_loss either scored on the data or set
\* to 1.0 and 0.0), the predictions frame and the warnings logged
evaluate_model(model, X_test, y_test) ==
    LET n == Len(X_test.rows)
        y_pred == [i \in 1..n |-> predict(model, X_test.rows[i])]
        y_proba_raw == [i \in 1..n |-> predict_proba(model, X_test.rows[i])]
        width == Len(model.classes)
        y_proba == [i \in 1..n |-> IF width = 1 THEN y_proba_raw[i][1]
                                    ELSE y_proba_raw[i][2]]
        scored == Cardinality(Range(y_test)) > 1 /\ width = 2
    IN  [metrics |->
            [accuracy |-> [hits |-> Cardinality({i \in 1..n : y_pred[i] = y_test[i]}),
                           of |-> n],
             roc_auc |-> IF scored THEN "roc_auc_score" ELSE "1.0",
             log_loss |-> IF scored THEN "log_loss" ELSE "0.0"],
         predictions |->
            DataFrame(<<"actual", "prediction", "probability">>,
                      [i \in 1..n |-> [actual |-> y_test[i], prediction |-> y_pred[i],
                                       probability |-> y_proba[i]]]),
         warnings |-> IF width = 1 THEN <<"Only one class present in predictions">>
                      ELSE <<>>]

\* evaluate_all_models(db_path, models_dir): the metrics of the models found,
\* the prediction files written to the reports directory, the warnings logged
EvaluateAllModelsResult(op) ==
    LET exported == ExportFeaturesResult(op)
        test == exported.value.test
        X_test == Project(test, get_feature_columns(test).feature_cols)
        y_test(target) == [i \in 1..Len(test.rows) |-> test.rows[i][target]]
        found == {k \in 1..Len(model_files) : model_files[k].name \in DOMAIN models_dir}
        evaluated == [k \in found |->
                         evaluate_model(models_dir[model_files[k].name], X_test,
                                        y_test(model_files[k].target))]
        RECURSIVE warnings_from(_)
        warnings_from(k) ==
            IF k > Len(model_files) THEN <<>>
            ELSE (IF k \in found THEN evaluated[k].warnings
                  ELSE <<model_files[k].not_found>>) \o warnings_from(k + 1)
    IN  IF exported.status = "raised" THEN exported
        ELSE Returned(op,
                 [results |-> [name \in DOMAIN models_dir |->
                                  evaluated[CHOOSE k \in found :
                                                model_files[k].name = name].metrics],
                  reports |-> [name \in DOMAIN models_dir |->
                                  evaluated[CHOOSE k \in found :
                                                model_files[k].name = name].predictions],
                  warnings |-> warnings_from(1)])

----------------------------------------------------------------------------
(* train_dnf.py *)

\* train_model(db_path, output_dir) up to the pickle: the error that ends it, or
\* "fitted". fit needs a row; predict_proba(X)[:, 1] needs a pipeline fitted on
\* both labels; roc_auc_score needs both labels among the rows it scores
TrainModelOutcome ==
    LET exported == ExportFeaturesResult("train_model")
        y_train == {r.target_dnf : r \in Range(exported.value.train.rows)}
        y_val == {r.target_dnf : r \in Range(exported.value.val.rows)}
    IN  IF exported.status = "raised" THEN exported.error
        ELSE IF y_train = {} THEN "ValueError"
        ELSE IF Cardinality(y_train) = 1 THEN "IndexError"
        ELSE IF Cardinality(y_val) < 2 THEN "ValueError"
        ELSE "fitted"

----------------------------------------------------------------------------
(* streamlit_app.py: the predictions page up to the combined outcome *)

\* 0.5, in hundredths
Threshold == 50

\* the lambda of predictions.apply on one row raises KeyError when it reads a
\* probability the row does not have: dnf_probability first, top10_probability
\* only when the DNF branch is not taken
final_prediction_raises(row) ==
    \/ "dnf_probability" \notin DOMAIN row
    \/ /\ ~(row.dnf_probability > Threshold)
       /\ "top10_probability" \notin DOMAIN row

\* final_prediction with the Top-10 branch tested first
final_prediction_top10_first(row) ==
    IF "top10_probability" \in DOMAIN row /\ row.top10_probability > Threshold THEN "Top-10"
    ELSE IF row.dnf_probability > Threshold THEN "DNF"
    ELSE "Outside Top-10"

\* final_prediction with >= for >
final_prediction_inclusive(row) ==
    IF row.dnf_probability >= Threshold THEN "DNF"
    ELSE IF row.top10_probability >= Threshold THEN "Top-10"
    ELSE "Outside Top-10"

\* the lambda of predictions.apply on one row
final_prediction(row) ==
    IF row.dnf_probability > Threshold THEN "DNF"
    ELSE IF row.top10_probability > Threshold THEN "Top-10"
    ELSE "Outside Top-10"

\* is_label with the label of the first of the two assignments in both
is_label_copied(row, label) == IF row.final_prediction = "Top-10" THEN 1 ELSE 0

\* (predictions['final_prediction'] == label).astype(int)
is_label(row, label) == IF row.final_prediction = label THEN 1 ELSE 0

\* the three assignments of the page: final_prediction, then the two recomputed
\* prediction columns
Combiner(predictions) ==
    LET labelled == WithColumn(predictions, "final_prediction",
                        [i \in 1..Len(predictions.rows) |->
                            final_prediction(predictions.rows[i])])
        top10 == WithColumn(labelled, "top10_prediction",
                     [i \in 1..Len(labelled.rows) |-> is_label(labelled.rows[i], "Top-10")])
    IN  WithColumn(top10, "dnf_prediction",
            [i \in 1..Len(top10.rows) |-> is_label(top10.rows[i], "DNF")])

CombinerRaises(predictions) ==
    \E i \in 1..Len(predictions.rows) : final_prediction_raises(predictions.rows[i])

\* load_dimension_tables before the except: the three tables, or the error of
\* the connection or of a query on a table the warehouse does not have
LoadDimensionTablesResult(op) ==
    IF warehouse.status # "ok" \/ DOMAIN warehouse.dim_tables = {}
    THEN Raised(op, "duckdb.Error")
    ELSE Returned(op, warehouse.dim_tables)

\* main(): one of the three loaders answered None
InitFailed ==
    \/ LoadModelsResult("main").status = "raised"
    \/ ExportFeaturesResult("main").status = "raised"
    \/ LoadDimensionTablesResult("main").status = "raised"

\* main() after st.error("Failed to initialize app..."): it returns and no page
\* function is called
NotRendered(op) ==
    [op |-> op, status |-> "not rendered", error |-> "Failed to initialize app",
     value |-> EmptyDataFrame]

\* main() and show_predictions_page for the race selected: the models and the
\* splits as loaded, the rows of the race, predict_race, the combined outcome.
\* With no row in the splits the selectors offer nothing and answer None, and
\* tracks_df.iloc[None] raises.
ShowPredictionsPageResult(op, selected_race_id) ==
    LET loaded == LoadModelsResult(op)
        exported == ExportFeaturesResult(op)
        splits == exported.value
        all_data == Concat(<<splits.train, splits.val, splits.test>>)
        race_data == Filter(all_data, [i \in 1..Len(all_data.rows) |->
                                          all_data.rows[i].race_id = selected_race_id[1]])
        predictions == predict_race(race_data, loaded.value,
                                    get_feature_columns(race_data).feature_cols)
    IN  IF InitFailed
        THEN NotRendered(op)
        ELSE IF selected_race_id = <<>>
        THEN Raised(op, "TypeError")
        ELSE IF CombinerRaises(predictions)
        THEN [op |-> op, status |-> "raised", error |-> "KeyError", value |-> predictions]
        ELSE Returned(op, Combiner(predictions))

\* the races the page offers: those of the rows of the three splits; a page that
\* is not rendered offers none
OfferedRaces ==
    LET exported == ExportFeaturesResult("export_features")
        splits == exported.value
    IN  IF InitFailed THEN {}
        ELSE {r.race_id : r \in Range(Concat(<<splits.train, splits.val, splits.test>>).rows)}

\* year_data.groupby('round').agg({'race_id': 'first', 'circuit_id': 'first'})
\* .reset_index(): a row for each round, the rounds rising
groupby_round_first(year_data) ==
    LET rounds == Ascending({r.round : r \in Range(year_data.rows)})
        first(round) == year_data.rows[CHOOSE i \in 1..Len(year_data.rows) :
                            /\ year_data.rows[i].round = round
                            /\ \A j \in 1..(i - 1) : year_data.rows[j].round # round]
    IN  DataFrame(<<"round", "race_id", "circuit_id">>,
                  [k \in 1..Len(rounds) |->
                      [round |-> rounds[k], race_id |-> first(rounds[k]).race_id,
                       circuit_id |-> first(rounds[k]).circuit_id]])

\* the tracks of the selected year, with the names the dimension tables have
tracks_df(year_data, dim_tables) ==
    merge(merge(groupby_round_first(year_data),
                Project(dim_tables.races, <<"race_id", "race_name">>), "race_id"),
          Project(dim_tables.circuits, <<"circuit_id", "circuit_name">>), "circuit_id")

\* the label of a track: the names, or 'Circuit <circuit_id>' and 'Round <round>'
track_label(row) ==
    LET circuit_name == IF notna(row.circuit_name) THEN row.circuit_name
                        ELSE "Circuit " \o ToString(row.circuit_id)
        race_name == IF notna(row.race_name) THEN row.race_name
                     ELSE "Round " \o ToString(row.round)
    IN  circuit_name \o " (" \o race_name \o ")"

\* driver_name that leaves the name of an unknown driver missing
driver_name_unfilled(row) == row.full_name

\* predictions['full_name'].fillna(predictions['driver_id'].astype(str))
driver_name(row) == IF notna(row.full_name) THEN row.full_name ELSE ToString(row.driver_id)

\* the splits the page works on, all rows together
PageData ==
    LET splits == ExportFeaturesResult("show_predictions_page").value
    IN  Concat(<<splits.train, splits.val, splits.test>>)

\* the rows of the year selected
YearData(selected_year) ==
    Filter(PageData, [i \in 1..Len(PageData.rows) |-> PageData.rows[i].year = selected_year])

\* main() and show_predictions_page for the year and the track selected: the
\* track labels, the rows of the race with their predictions and the combined
\* outcome, the names of the drivers, the rows by grid position. The page
\* rendered is its table (columns, rows) and its labels. The three assignments
\* of the combiner write into the frame predict_race returned: `predicted` is
\* that frame as predict_race returned it, `predicted_after` the same frame
\* once the assignments are done.
PredictionsPage(op, selected_year, selected_track_idx) ==
    LET tracks == tracks_df(YearData(selected_year), warehouse.dim_tables)
        track_labels == [k \in 1..Len(tracks.rows) |-> track_label(tracks.rows[k])]
        selected_race_id == tracks.rows[selected_track_idx].race_id
        combined == ShowPredictionsPageResult(op, <<selected_race_id>>)
        race_data == Filter(PageData, [i \in 1..Len(PageData.rows) |->
                                          PageData.rows[i].race_id = selected_race_id])
        scored == predict_race(race_data, models_dir,
                               get_feature_columns(race_data).feature_cols)
        named == merge(combined.value, warehouse.dim_tables.drivers, "driver_id")
        predictions == sort_values(
                           WithColumn(named, "driver_name",
                               [i \in 1..Len(named.rows) |-> driver_name(named.rows[i])]),
                           "grid_position", TRUE)
    IN  IF combined.status # "returned" THEN combined
        ELSE Returned(op, [columns |-> predictions.columns,
                           rows |-> predictions.rows,
                           track_labels |-> track_labels,
                           track_name |-> track_labels[selected_track_idx],
                           predicted |-> scored,
                           predicted_after |-> combined.value])

----------------------------------------------------------------------------
(* streamlit_app.py: the other pages *)

\* (predictions[prediction] == predictions[target]).mean(), as hits out of rows
accuracy(predictions, prediction, target) ==
    [hits |-> Cardinality({i \in 1..Len(predictions.rows) :
                              predictions.rows[i][prediction] = predictions.rows[i][target]}),
     of |-> Len(predictions.rows)]

\* predictions.groupby('year').apply(...).reset_index(): a row for each year,
\* the years rising
yearly_performance(predictions) ==
    LET years == Ascending({r.year : r \in Range(predictions.rows)})
        of_year(year) == Filter(predictions, [i \in 1..Len(predictions.rows) |->
                                                 predictions.rows[i].year = year])
    IN  [k \in 1..Len(years) |->
            [year |-> years[k],
             top10_accuracy |-> accuracy(of_year(years[k]), "top10_prediction",
                                         "target_top_10"),
             dnf_accuracy |-> accuracy(of_year(years[k]), "dnf_prediction", "target_dnf"),
             samples |-> Len(of_year(years[k]).rows)]]

\* main() and show_performance_page: predict_race on the test split, then the
\* accuracies. A pipeline asked to predict for no row raises ValueError; the
\* page reads both prediction columns, and predict_race adds a column only for
\* a model that was loaded. `tested` is the test split as the page leaves it.
ShowPerformancePageResult(op) ==
    LET models == LoadModelsResult(op).value
        test_data == ExportFeaturesResult(op).value.test
        predictions == predict_race(test_data, models,
                                    get_feature_columns(test_data).feature_cols)
    IN  IF InitFailed THEN NotRendered(op)
        ELSE IF Len(test_data.rows) = 0 THEN Raised(op, "ValueError")
        ELSE IF "top10_prediction" \notin Range(predictions.columns)
                    \/ "dnf_prediction" \notin Range(predictions.columns)
        THEN Raised(op, "KeyError")
        ELSE Returned(op, [test_samples |-> Len(test_data.rows),
                           top10_accuracy |-> accuracy(predictions, "top10_prediction",
                                                       "target_top_10"),
                           dnf_accuracy |-> accuracy(predictions, "dnf_prediction",
                                                     "target_dnf"),
                           yearly_performance |-> yearly_performance(predictions),
                           tested |-> test_data])

\* main() and show_feature_importance_page: a chart for each model loaded
ShowFeatureImportancePageResult(op) ==
    IF InitFailed THEN NotRendered(op)
    ELSE Returned(op, [charts |-> {name \in ModelNames :
                                      name \in DOMAIN LoadModelsResult(op).value}])

\* f"{df['year'].min()}-{df['year'].max()}": of no row, the minimum and the
\* maximum are nan
years_range(df) ==
    LET years == {r.year : r \in Range(df.rows)}
    IN  IF years = {} THEN "nan-nan"
        ELSE ToString(Min(years)) \o "-" \o ToString(Max(years))

\* main() and show_historical_page: the figures of the dataset overview and of
\* the temporal splits
ShowHistoricalPageResult(op) ==
    LET splits == ExportFeaturesResult(op).value
        all_data == Concat(<<splits.train, splits.val, splits.test>>)
        split_years(df) == IF Len(df.rows) > 0 THEN years_range(df) ELSE "N/A"
    IN  IF InitFailed THEN NotRendered(op)
        ELSE Returned(op, [total_races |-> Cardinality({r.race_id :
                                                           r \in Range(all_data.rows)}),
                           total_results |-> Len(all_data.rows),
                           years |-> years_range(all_data),
                           total_drivers |-> Len(warehouse.dim_tables.drivers.rows),
                           samples |-> <<Len(splits.train.rows), Len(splits.val.rows),
                                         Len(splits.test.rows)>>,
                           split_years |-> <<split_years(splits.train),
                                             split_years(splits.val),
                                             split_years(splits.test)>>])

----------------------------------------------------------------------------
(* The calls of the prediction subsystem *)

\* a process serves one request: the entry points exit when their call is over,
\* and no call leaves anything behind for the next one
Idle == call = NoCall

LoadModels ==
    /\ Idle
    /\ call' = LoadModelsResult("load_models")
    /\ UNCHANGED <<environ, config, warehouse, models_dir, output_dir, cache, session, parquet_dir>>

\* predict_race writes its columns into features.copy() (predict.py:74), so the
\* frame it was given is after the call (features_after) what it was before.
\* predict_race called with the rows of the warehouse and any part of the models;
\* like its callers (predict.py:138, batch_predict.py:53, streamlit_app.py:195)
\* the call passes at least one row
PredictRace ==
    /\ Idle
    /\ warehouse.status = "ok"
    /\ Len(warehouse.table.rows) > 0
    /\ \E names \in SUBSET DOMAIN models_dir :
          LET models == [n \in names |-> models_dir[n]]
              features == warehouse.table
              predictions == predict_race(features, models,
                                          get_feature_columns(features).feature_cols)
          IN  call' = Returned("predict_race",
                          [models |-> names, features |-> features,
                           predictions |-> predictions,
                           warnings |-> predict_race_warnings(models),
                           features_after |->
                               features_after_predict_race(features, predictions)])
    /\ UNCHANGED <<environ, config, warehouse, models_dir, output_dir, cache, session, parquet_dir>>

PredictFromDb ==
    /\ Idle
    /\ \E year \in Optional(Years), race_id \in Optional({y - FirstYear + 1 : y \in Years}) :
          call' = PredictFromDbResult("predict_from_db", year, race_id)
    /\ UNCHANGED <<environ, config, warehouse, models_dir, output_dir, cache, session, parquet_dir>>

\* predict_from_csv on a features_<split>.csv that export_features wrote; the
\* function does not test for an empty file, and what a classifier does with no
\* rows is the library's choice: it scores nothing, or it raises
PredictFromCsv ==
    /\ Idle
    /\ ExportFeaturesResult("export_features").status = "returned"
    /\ \E name \in {"train", "val", "test"} :
          LET features == ExportFeaturesResult("export_features").value[name]
              result == PredictFromCsvResult("predict_from_csv", features)
          IN  \/ call' = result
              \/ /\ result.status = "returned"
                 /\ Len(features.rows) = 0
                 /\ call' = Raised("predict_from_csv", "ValueError")
    /\ UNCHANGED <<environ, config, warehouse, models_dir, output_dir, cache, session, parquet_dir>>

\* the --years lists: isin makes nothing of the order of the years or of a year
\* given twice, so the lists are the rising ones
YearLists ==
    {years \in NonEmptySeqsUpTo(Years, MaxYearList) :
        \A i, j \in 1..Len(years) : i < j => years[i] < years[j]}

\* batch_predict(db_path, models_dir, years, output_dir), with or without an
\* output directory. With one, the prediction files are written, then
\* predictions_summary.txt is opened and the summary formatted into it: when
\* the formatting raises, the files written stay and the summary file is empty
BatchPredict ==
    /\ Idle
    /\ \E years \in Optional(YearLists) :
          LET result == BatchPredictResult("batch_predict", years)
              predictions == result.value
          IN  \E save \in BOOLEAN :
                  IF ~ save \/ result.status = "raised" \/ Len(predictions.rows) = 0
                  THEN /\ call' = result
                       /\ UNCHANGED output_dir
                  ELSE IF format_predictions_summary_raises(predictions)
                  THEN /\ call' = Raised("batch_predict", "KeyError")
                       /\ output_dir' = ("predictions_summary.txt" :> <<>>)
                                            @@ prediction_files(predictions) @@ output_dir
                  ELSE /\ call' = result
                       /\ output_dir' = ("predictions_summary.txt"
                                              :> format_predictions_summary(predictions))
                                            @@ prediction_files(predictions) @@ output_dir
    /\ UNCHANGED <<environ, config, warehouse, models_dir, cache, session, parquet_dir>>

\* export_features called on its own
ExportFeaturesCli ==
    /\ Idle
    /\ ExportFeatures

\* evaluate_all_models; what a classifier does with no test rows is the library's
\* choice: it scores nothing, or it raises
EvaluateAllModels ==
    /\ Idle
    /\ LET result == EvaluateAllModelsResult("evaluate_all_models")
       IN  \/ call' = result
           \/ /\ result.status = "returned"
              /\ Len(ExportFeaturesResult("evaluate_all_models").value.test.rows) = 0
              /\ DOMAIN models_dir # {}
              /\ call' = Raised("evaluate_all_models", "ValueError")
    /\ UNCHANGED <<environ, config, warehouse, models_dir, output_dir, cache, session, parquet_dir>>

\* train_model: a run that gets as far as the pickle writes dnf_classifier.pkl,
\* the pipeline fitted on both labels, and returns it
TrainModel ==
    /\ Idle
    /\ IF TrainModelOutcome = "fitted"
       THEN \E pipeline \in {m \in Models : m.classes = <<0, 1>>} :
               /\ models_dir' = [name \in DOMAIN models_dir \cup {"dnf"} |->
                                    IF name = "dnf" THEN pipeline ELSE models_dir[name]]
               /\ call' = Returned("train_model", pipeline)
       ELSE /\ call' = Raised("train_model", TrainModelOutcome)
            /\ UNCHANGED models_dir
    /\ UNCHANGED <<environ, config, warehouse, output_dir, cache, session, parquet_dir>>

\* the page rendered for a year and a track the selectors offer; with nothing on
\* offer both selectors answer None
ShowPredictionsPage ==
    /\ Idle
    /\ \/ /\ OfferedRaces = {}
          /\ call' = ShowPredictionsPageResult("show_predictions_page", <<>>)
       \/ /\ OfferedRaces # {}
          /\ \E selected_year \in {r.year : r \in Range(PageData.rows)} :
                \E selected_track_idx
                        \in 1..Len(tracks_df(YearData(selected_year),
                                              warehouse.dim_tables).rows) :
                    call' = PredictionsPage("show_predictions_page",
                                            selected_year, selected_track_idx)
    /\ UNCHANGED <<environ, config, warehouse, models_dir, output_dir, cache, session, parquet_dir>>

ShowPerformancePage ==
    /\ Idle
    /\ call' = ShowPerformancePageResult("show_performance_page")
    /\ UNCHANGED <<environ, config, warehouse, models_dir, output_dir, cache, session, parquet_dir>>

ShowFeatureImportancePage ==
    /\ Idle
    /\ call' = ShowFeatureImportancePageResult("show_feature_importance_page")
    /\ UNCHANGED <<environ, config, warehouse, models_dir, output_dir, cache, session, parquet_dir>>

ShowHistoricalPage ==
    /\ Idle
    /\ call' = ShowHistoricalPageResult("show_historical_page")
    /\ UNCHANGED <<environ, config, warehouse, models_dir, output_dir, cache, session, parquet_dir>>

\* a configuration that satisfies the split precondition: train up to the second
\* season, validate on the third, test on the fourth
SampleEnviron ==
    [TRAIN_END_YEAR |-> IntItem(FirstYear + 1),
     VAL_YEARS |-> <<IntItem(FirstYear + 2)>>,
     TEST_YEARS |-> <<IntItem(FirstYear + 3)>>]

InitPredict ==
    /\ environ = SampleEnviron
    /\ config = ConfigFromEnv(environ)
    /\ warehouse \in Warehouses
    /\ models_dir \in ModelDirs
    /\ output_dir = <<>>
    /\ call = NoCall
    /\ cache = NoCache
    /\ session = NoSessions
    /\ parquet_dir = NoParquetDir

NextPredict ==
    \/ ExportFeaturesCli
    \/ EvaluateAllModels
    \/ TrainModel
    \/ LoadModels
    \/ PredictRace
    \/ PredictFromDb
    \/ PredictFromCsv
    \/ BatchPredict
    \/ ShowPredictionsPage

SpecPredict == InitPredict /\ [][NextPredict]_vars

----------------------------------------------------------------------------
(* Properties of the prediction subsystem *)

\* the predictions page has computed the combined outcome of a race
PageCombined == call.op = "show_predictions_page" /\ call.status = "returned"

HasBothProbabilities(row) ==
    "dnf_probability" \in DOMAIN row /\ "top10_probability" \in DOMAIN row

\* C4: for every row with both probabilities, final_prediction is DNF when
\* dnf_probability > 0.5, otherwise Top-10 when top10_probability > 0.5, otherwise
\* Outside Top-10: a DNF probability above 0.5 wins whatever the top-10 probability.
C4_DnfFirstPrecedence ==
    PageCombined =>
        \A row \in Range(call.value.rows) :
            HasBothProbabilities(row) =>
                /\ row.dnf_probability > 50 => row.final_prediction = "DNF"
                /\ row.dnf_probability <= 50 /\ row.top10_probability > 50
                        => row.final_prediction = "Top-10"
                /\ row.dnf_probability <= 50 /\ row.top10_probability <= 50
                        => row.final_prediction = "Outside Top-10"

\* a combined row whose two probabilities both exceed 0.5, the top-10 one at its
\* largest, labelled DNF
C4_Witness ==
    /\ PageCombined
    /\ \E row \in Range(call.value.rows) :
          /\ HasBothProbabilities(row)
          /\ row.dnf_probability = 51
          /\ row.top10_probability = 100
          /\ row.final_prediction = "DNF"

\* C5: every combined row has exactly one of the three outcomes, top10_prediction
\* is 1 exactly when the outcome is Top-10 and dnf_prediction is 1 exactly when it
\* is DNF, so the two predictions are never both 1.
C5_OutcomeAndFlagsAgree ==
    PageCombined =>
        \A row \in Range(call.value.rows) :
            /\ row.final_prediction \in {"Top-10", "DNF", "Outside Top-10"}
            /\ row.top10_prediction \in {0, 1}
            /\ row.dnf_prediction \in {0, 1}
            /\ row.top10_prediction = 1 <=> row.final_prediction = "Top-10"
            /\ row.dnf_prediction = 1 <=> row.final_prediction = "DNF"
            /\ ~(row.top10_prediction = 1 /\ row.dnf_prediction = 1)

\* a combined row for which both classifiers answer 1 on their own: the outcome
\* is DNF and only dnf_prediction is 1
C5_Witness ==
    /\ PageCombined
    /\ "top10" \in DOMAIN models_dir
    /\ "dnf" \in DOMAIN models_dir
    /\ \E row \in Range(call.value.rows) :
          /\ predict(models_dir["top10"], row) = 1
          /\ predict(models_dir["dnf"], row) = 1
          /\ row.final_prediction = "DNF"
          /\ row.top10_prediction = 0
          /\ row.dnf_prediction = 1

\* C6: a probability of exactly 0.5 triggers nothing: a combined row with
\* dnf_probability = 0.5 is not DNF, one with top10_probability = 0.5 is not Top-10,
\* and one with both at 0.5 is Outside Top-10.
C6_ThresholdIsStrict ==
    PageCombined =>
        \A row \in Range(call.value.rows) :
            HasBothProbabilities(row) =>
                /\ row.dnf_probability = 50 => row.final_prediction # "DNF"
                /\ row.top10_probability = 50 => row.final_prediction # "Top-10"
                /\ row.dnf_probability = 50 /\ row.top10_probability = 50
                        => row.final_prediction = "Outside Top-10"

\* a combined row with both probabilities at exactly 0.5, labelled Outside Top-10
C6_Witness ==
    /\ PageCombined
    /\ \E row \in Range(call.value.rows) :
          /\ HasBothProbabilities(row)
          /\ row.dnf_probability = 50
          /\ row.top10_probability = 50
          /\ row.final_prediction = "Outside Top-10"

\* predict_race has returned for a mapping that holds exactly the model `name`
PredictedWithOnly(name) ==
    /\ call.op = "predict_race"
    /\ call.value.models = {name}

\* the records are the input rows, in order, each with the two columns of `name`
\* added and nothing else
OnlyColumnsOf(name) ==
    LET features == call.value.features
        predictions == call.value.predictions
        added == {name \o "_probability", name \o "_prediction"}
    IN  /\ Len(predictions.rows) = Len(features.rows)
        /\ predictions.columns
               = features.columns \o <<name \o "_probability", name \o "_prediction">>
        /\ \A i \in 1..Len(features.rows) :
              /\ DOMAIN predictions.rows[i] = DOMAIN features.rows[i] \cup added
              /\ \A c \in DOMAIN features.rows[i] :
                    predictions.rows[i][c] = features.rows[i][c]
              /\ predictions.rows[i][name \o "_probability"] \in 0..100
              /\ predictions.rows[i][name \o "_prediction"] \in {0, 1}

\* C8: with a mapping that holds only the top10 model, predict_race returns one
\* record per input row with top10_probability and top10_prediction and without a
\* dnf_probability or dnf_prediction column, and does not raise; the same with
\* only the dnf model.
C8_OneModelDegradesGracefully ==
    /\ PredictedWithOnly("top10") => call.status = "returned" /\ OnlyColumnsOf("top10")
    /\ PredictedWithOnly("dnf") => call.status = "returned" /\ OnlyColumnsOf("dnf")

\* predict_race has returned records for two rows from the top10 model alone,
\* while the models directory holds both models
C8_Witness ==
    /\ PredictedWithOnly("top10")
    /\ DOMAIN models_dir = {"top10", "dnf"}
    /\ Len(call.value.predictions.rows) = 2
    /\ "top10_probability" \in Range(call.value.predictions.columns)
    /\ "dnf_probability" \notin Range(call.value.predictions.columns)

\* the predictions page has come to the combiner for the rows of a race: it has
\* combined them, or predictions.apply has raised
PageReachedCombiner ==
    /\ call.op = "show_predictions_page"
    /\ call.status = "returned" \/ (call.status = "raised" /\ call.error = "KeyError")

\* the outcome the specification asks of the combiner when an axis is missing:
\* the missing probability counts as 0
OutcomeWithMissingAsZero(row) ==
    LET dnf == IF "dnf_probability" \in DOMAIN row THEN row.dnf_probability ELSE 0
        top10 == IF "top10_probability" \in DOMAIN row THEN row.top10_probability ELSE 0
    IN  IF dnf > 50 THEN "DNF" ELSE IF top10 > 50 THEN "Top-10" ELSE "Outside Top-10"

\* C9: when exactly one model is present, the page still combines: it does not
\* raise and every row gets the outcome it would have with the missing
\* probability at 0.
C9_CombinerToleratesMissingAxis ==
    (PageReachedCombiner /\ Cardinality(DOMAIN models_dir) = 1)
        => /\ call.status = "returned"
           /\ \A row \in Range(call.value.rows) :
                 row.final_prediction = OutcomeWithMissingAsZero(row)

\* C10: with neither model on disk, load_models, predict_race, predict_from_db,
\* predict_from_csv and batch_predict all end in an error, whatever rows they select.
C10_NoModelsIsFatal ==
    (DOMAIN models_dir = {}
        /\ call.op \in {"load_models", "predict_race", "predict_from_db",
                        "predict_from_csv", "batch_predict"})
        => call.status = "raised"

\* C17: when the query for the feature table fails, export_features raises the
\* failure and returns no splits, and predict_from_db, batch_predict,
\* evaluate_all_models and train_model end in that failure with no result.
C17_QueryFailureIsFatal ==
    (/\ warehouse.status # "ok"
     /\ call.op \in {"export_features", "predict_from_db", "batch_predict",
                     "evaluate_all_models", "train_model"})
        => call = Raised(call.op, "duckdb.Error")

\* batch_predict against an unreachable warehouse, with both models on disk
C17_Witness ==
    /\ warehouse.status = "unreachable"
    /\ DOMAIN models_dir = ModelNames
    /\ call = Raised("batch_predict", "duckdb.Error")

\* C18: with exactly one model on disk and a feature table that loads,
\* batch_predict returns, with or without an output directory, and the records
\* it returns carry the columns of the model present and not those of the absent
\* one; formatting the summary of such records does not raise.
C18_BatchWithOneModelCompletes ==
    (/\ call.op = "batch_predict"
     /\ Cardinality(DOMAIN models_dir) = 1
     /\ ExportFeaturesResult("batch_predict").status = "returned")
        => /\ call.status = "returned"
           /\ \A name \in ModelNames :
                 Len(call.value.rows) > 0 =>
                     (name \in DOMAIN models_dir
                          <=> {name \o "_probability", name \o "_prediction"}
                                  \subseteq Range(call.value.columns))
           /\ ~ format_predictions_summary_raises(call.value)

\* the probability column the claim asks for: the sole column of a pipeline
\* fitted on one class, the second column otherwise
PositiveClassProbability(model, row) ==
    IF Len(model.classes) = 1 THEN 100 ELSE model.p[row.grid_position]

\* C20: predict_race and evaluate_model do not raise on a single-column
\* probability output: they take the sole column as the probability and log a
\* warning about the single class; of a two-column output they take the second
\* column.
C20_SingleClassIsWarnedAndRecovered ==
    /\ call.op = "predict_race" =>
          /\ call.status = "returned"
          /\ \A name \in call.value.models :
                /\ \A row \in Range(call.value.predictions.rows) :
                      row[name \o "_probability"]
                          = PositiveClassProbability(models_dir[name], row)
                /\ Len(models_dir[name].classes) = 1 =>
                      \E i \in 1..Len(call.value.warnings) :
                          call.value.warnings[i]
                              \notin {"Top-10 model not available, skipping predictions",
                                      "DNF model not available, skipping predictions"}
    /\ (call.op = "evaluate_all_models" /\ call.status = "returned") =>
          \A name \in DOMAIN models_dir :
              /\ \A i \in 1..Len(call.value.reports[name].rows) :
                    call.value.reports[name].rows[i].probability
                        = PositiveClassProbability(
                              models_dir[name],
                              ExportFeaturesResult("evaluate_all_models").value.test.rows[i])
              /\ Len(models_dir[name].classes) = 1 =>
                    \E i \in 1..Len(call.value.warnings) :
                        call.value.warnings[i] = "Only one class present in predictions"

\* the columns predict_race and the combiner add
prediction_columns ==
    {"top10_probability", "top10_prediction", "dnf_probability", "dnf_prediction",
     "final_prediction"}

\* the frame `after` holds every column of `before` with the values of `before`,
\* row by row, and beyond them prediction columns only
ExtendsUnchanged(before, after) ==
    /\ Len(after.rows) = Len(before.rows)
    /\ Range(before.columns) \subseteq Range(after.columns)
    /\ Range(after.columns) \ Range(before.columns) \subseteq prediction_columns
    /\ \A i \in 1..Len(before.rows) :
          \A col \in Range(before.columns) : after.rows[i][col] = before.rows[i][col]

\* C21: predict_race and the combiner leave the table they are given as it was,
\* and what they return holds every column of that table with its values
\* unchanged, plus added prediction columns only.
C21_InputTablesAreLeftAlone ==
    /\ call.op = "predict_race" =>
          /\ call.value.features_after = call.value.features
          /\ ExtendsUnchanged(call.value.features, call.value.predictions)
    /\ PageCombined =>
          /\ call.value.predicted_after = call.value.predicted
          /\ ExtendsUnchanged(call.value.predicted, call.value.predicted_after)

\* C27: for the rows of a race and the two models, the top10_prediction and
\* dnf_prediction of the records predict_race returns are those the dashboard
\* derives from final_prediction, and no record predict_race returns has both
\* set.
C27_PredictRaceAgreesWithDashboard ==
    (PageCombined /\ DOMAIN models_dir = ModelNames) =>
        \A i \in 1..Len(call.value.predicted.rows) :
            LET raw == call.value.predicted.rows[i]
                derived == call.value.predicted_after.rows[i]
            IN  /\ raw.top10_prediction = derived.top10_prediction
                /\ raw.dnf_prediction = derived.dnf_prediction
                /\ ~(raw.top10_prediction = 1 /\ raw.dnf_prediction = 1)

\* batch_predict has returned and its summary is in the output directory
SummaryWritten ==
    /\ call.op = "batch_predict"
    /\ call.status = "returned"
    /\ "predictions_summary.txt" \in DOMAIN output_dir

\* the label of the summary for a three-way outcome
summary_label(outcome) ==
    IF outcome = "DNF" THEN "DNF"
    ELSE IF outcome = "Top-10" THEN "TOP-10"
    ELSE "11th-20th"

\* C28: the label of every line of the summary is that of the outcome the
\* DNF-first precedence gives the row, and a row with dnf_prediction set is
\* labelled DNF, with top10_prediction set or not.
C28_SummaryLabelsFollowDnfFirst ==
    SummaryWritten =>
        \A k \in 1..Len(output_dir["predictions_summary.txt"]) :
            LET section == output_dir["predictions_summary.txt"][k]
            IN  \A n \in 1..Len(section.lines) :
                    LET line == section.lines[n]
                    IN  /\ line.prediction
                              = summary_label(final_prediction(
                                    [dnf_probability |-> line.dnf_prob,
                                     top10_probability |-> line.top10_prob]))
                        /\ \A row \in Range(call.value.rows) :
                              (/\ row.race_id = section.race_id
                               /\ row.driver_id = line.driver_id
                               /\ row.dnf_prediction = 1)
                                  => line.prediction = "DNF"

\* C29: after batch_predict the output directory holds nothing, or all of
\* all_predictions.csv, a file for each race_id with each prediction row in
\* exactly one of them, and the summary; and it holds nothing when batch_predict
\* raised.
C29_ArtifactsAreAllOrNothing ==
    call.op = "batch_predict" =>
        /\ call.status = "raised" => DOMAIN output_dir = {}
        /\ DOMAIN output_dir # {} =>
              /\ call.status = "returned"
              /\ "all_predictions.csv" \in DOMAIN output_dir
              /\ "predictions_summary.txt" \in DOMAIN output_dir
              /\ Len(output_dir["predictions_summary.txt"]) > 0
              /\ \A row \in Range(call.value.rows) :
                    Cardinality({name \in DOMAIN output_dir
                                          \ {"all_predictions.csv", "predictions_summary.txt"} :
                                    row \in Range(output_dir[name].rows)}) = 1
              /\ Cardinality(DOMAIN output_dir) - 2
                    = Cardinality({row.race_id : row \in Range(call.value.rows)})

----------------------------------------------------------------------------
(* The dashboard over warehouses whose dimension tables have gaps *)

\* the warehouses of the dashboard: the dimension tables may miss drivers,
\* circuits and races of the feature table, have two entries for a driver, or
\* not be there
PageWarehouses ==
    {[w EXCEPT !.dim_tables = d] : w \in {v \in Warehouses : v.status = "ok"},
                                   d \in DimTables \cup TwiceDimTables \cup {NoDimTables}}
        \cup {w \in Warehouses : w.status # "ok"}

\* the models directories of the dashboard: classifiers that give every row the
\* same probability, 0 or 1
PageModelDirs ==
    {dir \in ModelDirs :
        \A name \in DOMAIN dir :
            /\ dir[name].classes = <<0, 1>>
            /\ \E p \in {0, 100} : \A g \in GridPositions : dir[name].p[g] = p}

InitPage ==
    /\ environ = SampleEnviron
    /\ config = ConfigFromEnv(environ)
    /\ warehouse \in PageWarehouses
    /\ models_dir \in PageModelDirs
    /\ output_dir = <<>>
    /\ call = NoCall
    /\ cache = NoCache
    /\ session = NoSessions
    /\ parquet_dir = NoParquetDir

NextPage ==
    \/ ShowPredictionsPage
    \/ ShowPerformancePage
    \/ ShowFeatureImportancePage
    \/ ShowHistoricalPage

SpecPage == InitPage /\ [][NextPage]_vars

\* the four pages main() routes to
PageOps ==
    {"show_predictions_page", "show_performance_page", "show_feature_importance_page",
     "show_historical_page"}

\* the splits were loaded and not one of them has a row
EmptyLoad ==
    LET exported == ExportFeaturesResult("main")
    IN  /\ exported.status = "returned"
        /\ \A name \in {"train", "val", "test"} : Len(exported.value[name].rows) = 0

\* C22: when the models, the splits or the dimension tables fail to load, or the
\* splits loaded have no row, the dashboard shows its failure message and renders
\* no page
C22_FailedOrEmptyLoadIsNotRendered ==
    (call.op \in PageOps /\ (InitFailed \/ EmptyLoad)) => call.status = "not rendered"

\* the page was rendered for a race, with both models loaded
PageRenderedWithBothModels ==
    /\ call.op = "show_predictions_page"
    /\ call.status # "not rendered"
    /\ DOMAIN models_dir = ModelNames
    /\ OfferedRaces # {}

\* the rows of a dimension table with the key value id
DimRows(dim, key, id) == {r \in Range(dim.rows) : r[key] = id}

\* C19: a driver, circuit or race that its dimension table does not know never
\* makes the predictions page raise: the driver is shown as the driver_id in
\* digits, the circuit as 'Circuit <circuit_id>', the race as 'Round <round>',
\* each a function of the identifier alone; a known one is shown by its name.
C19_MissingLookupFallsBack ==
    PageRenderedWithBothModels =>
        /\ call.status = "returned"
        /\ \A row \in Range(call.value.rows) :
              LET known == DimRows(warehouse.dim_tables.drivers, "driver_id", row.driver_id)
              IN  IF known = {} THEN row.driver_name = ToString(row.driver_id)
                  ELSE row.driver_name \in {r.full_name : r \in known}
        /\ \A row \in Range(call.value.rows) :
              LET circuits == DimRows(warehouse.dim_tables.circuits, "circuit_id",
                                      row.circuit_id)
                  races == DimRows(warehouse.dim_tables.races, "race_id", row.race_id)
              IN  \E circuit_name \in IF circuits = {}
                                       THEN {"Circuit " \o ToString(row.circuit_id)}
                                       ELSE {r.circuit_name : r \in circuits} :
                      \E race_name \in IF races = {}
                                        THEN {"Round " \o ToString(row.round)}
                                        ELSE {r.race_name : r \in races} :
                          call.value.track_name = circuit_name \o " (" \o race_name \o ")"

\* the page of a race whose driver, circuit and race are all unknown to the
\* dimension tables: every label is the fallback
C19_Witness ==
    /\ PageRenderedWithBothModels
    /\ call.status = "returned"
    /\ warehouse.dim_tables = [drivers |-> dim_driver({}), circuits |-> dim_circuit({}),
                               races |-> dim_race({})]
    /\ call.value.track_name = "Circuit 2 (Round 1)"
    /\ \E row \in Range(call.value.rows) : row.driver_id = 1 /\ row.driver_name = "1"

\* C30: the table of the predictions page has one row for each feature row of
\* the race selected, whatever the driver dimension table holds for its drivers:
\* no entry, one entry or several.
C30_OneRowForEachFeatureRow ==
    PageCombined =>
        /\ Len(call.value.rows) = Len(call.value.predicted.rows)
        /\ \A row \in Range(call.value.predicted.rows) :
              Cardinality({i \in 1..Len(call.value.rows) :
                              call.value.rows[i].result_id = row.result_id}) = 1

----------------------------------------------------------------------------
(* The dashboard with its cache, over several user sessions *)

\* the user sessions open at once
MaxSessions == 2

Sessions == 1..MaxSessions

\* @st.cache_resource, @st.cache_data: the first call runs the loader and
\* stores what it answers (None included), every later call gets the entry
cached(entry, loaded) ==
    IF entry.cached THEN entry ELSE [cached |-> TRUE, value |-> loaded]

\* what load_cached_models, load_cached_data answer on a first call: the result
\* of the loader, None when it raised
load_cached_models == LoadModelsResult("load_cached_models")

load_cached_data == ExportFeaturesResult("load_cached_data")

\* the cached splits once a page function has run on them. st.cache_data hands
\* a run a copy of its entry and st.cache_resource the entry itself; here a
\* run works on the entries themselves, so that the page functions alone have
\* to leave them as they are. Only show_performance_page passes a cached frame
\* on (data_splits['test'] to predict_race); the other pages work on the
\* frame pd.concat builds or read their arguments.
splits_after_page(op, data, models) ==
    LET test_data == data.value.value.test
        predictions == predict_race(test_data, models.value.value,
                                    get_feature_columns(test_data).feature_cols)
    IN  IF op = "show_performance_page" /\ Len(test_data.rows) > 0
        THEN [data EXCEPT !.value.value.test =
                              features_after_predict_race(test_data, predictions)]
        ELSE data

\* what a run of the predictions page may render: the page of a year and a
\* track the selectors offer, or the page with nothing on offer
PredictionsPageRenders ==
    IF OfferedRaces = {}
    THEN {ShowPredictionsPageResult("show_predictions_page", <<>>)}
    ELSE UNION {{PredictionsPage("show_predictions_page", selected_year,
                                 selected_track_idx) :
                    selected_track_idx
                        \in 1..Len(tracks_df(YearData(selected_year),
                                              warehouse.dim_tables).rows)} :
                selected_year \in {r.year : r \in Range(PageData.rows)}}

\* a script run of a session, up to the three loaders of main()
RunLoaders(s) ==
    /\ session[s] = "idle"
    /\ cache' = [models |-> cached(cache.models, load_cached_models),
                 data |-> cached(cache.data, load_cached_data)]
    /\ session' = [session EXCEPT ![s] = "loaded"]
    /\ UNCHANGED <<environ, config, warehouse, models_dir, output_dir, call, parquet_dir>>

\* the rest of the script run: the failure message, or the page selected. The
\* warehouse and the models directory do not change while the dashboard is up,
\* so what the page functions are given is what the loaders answer from them.
RenderPage(s) ==
    /\ session[s] = "loaded"
    /\ \/ /\ InitFailed
          /\ call' = NotRendered("main")
          /\ UNCHANGED cache
       \/ /\ ~InitFailed
          /\ \E render \in PredictionsPageRenders : call' = render
          /\ cache' = [cache EXCEPT !.data = splits_after_page("show_predictions_page",
                                                                cache.data, cache.models)]
       \/ /\ ~InitFailed
          /\ call' = ShowPerformancePageResult("show_performance_page")
          /\ cache' = [cache EXCEPT !.data = splits_after_page("show_performance_page",
                                                                cache.data, cache.models)]
       \/ /\ ~InitFailed
          /\ call' = ShowFeatureImportancePageResult("show_feature_importance_page")
          /\ cache' = [cache EXCEPT !.data =
                           splits_after_page("show_feature_importance_page",
                                             cache.data, cache.models)]
       \/ /\ ~InitFailed
          /\ call' = ShowHistoricalPageResult("show_historical_page")
          /\ cache' = [cache EXCEPT !.data = splits_after_page("show_historical_page",
                                                                cache.data, cache.models)]
    /\ session' = [session EXCEPT ![s] = "idle"]
    /\ UNCHANGED <<environ, config, warehouse, models_dir, output_dir, parquet_dir>>

\* the warehouses the dashboard is started on
DashboardWarehouses ==
    Warehouses \cup {[w EXCEPT !.dim_tables = NoDimTables] :
                        w \in {v \in Warehouses : v.status = "ok"}}

InitDashboard ==
    /\ environ = SampleEnviron
    /\ config = ConfigFromEnv(environ)
    /\ warehouse \in DashboardWarehouses
    /\ models_dir \in PageModelDirs
    /\ output_dir = <<>>
    /\ call = NoCall
    /\ cache = NoCache
    /\ session = [s \in Sessions |-> "idle"]
    /\ parquet_dir = NoParquetDir

NextDashboard ==
    \E s \in Sessions :
        \/ RunLoaders(s)
        \/ RenderPage(s)

SpecDashboard == InitDashboard /\ [][NextDashboard]_vars

\* C23: whatever pages the sessions have rendered, in whatever order, the cached
\* model mapping and the cached splits are what the loaders answered when they
\* were first called
C23_CacheKeepsWhatWasLoaded ==
    /\ cache.models.cached => cache.models.value = load_cached_models
    /\ cache.data.cached => cache.data.value = load_cached_data

\* the performance page has been rendered from the cache while another session
\* was between its loaders and its page
C23_Witness ==
    /\ cache.models.cached /\ cache.data.cached
    /\ call.op = "show_performance_page" /\ call.status = "returned"
    /\ \E s \in Sessions : session[s] = "loaded"

----------------------------------------------------------------------------
(* The column classifier on its own *)

\* the column names of the feature table and of the sample table of the tests
ColumnNames ==
    {"result_id", "race_id", "driver_id", "constructor_id", "circuit_id",
     "year", "round", "race_date", "target_top_10", "target_dnf",
     "is_top_10", "is_dnf", "final_position", "status",
     "grid_position", "qualifying_position", "driver_top10_rate_recent",
     "constructor_points_recent"}

\* the columns of the sample table that hold text: race_date and status
is_numeric_dtype(col) == col \notin {"race_date", "status"}

\* str.lower() on the letters of the column names
ascii_uppercase == "ABCDEFGHIJKLMNOPQRSTUVWXYZ"

ascii_lowercase == "abcdefghijklmnopqrstuvwxyz"

lower(text) ==
    LET lower_char(c) ==
            IF \E k \in 1..Len(ascii_uppercase) : SubSeq(ascii_uppercase, k, k) = c
            THEN LET k == CHOOSE k \in 1..Len(ascii_uppercase) :
                              SubSeq(ascii_uppercase, k, k) = c
                 IN  SubSeq(ascii_lowercase, k, k)
            ELSE c
        RECURSIVE from(_)
        from(i) == IF i > Len(text) THEN ""
                   ELSE lower_char(SubSeq(text, i, i)) \o from(i + 1)
    IN  from(1)

\* the names the test takes for signs of leakage
leakage_indicators ==
    <<"final_position", "position", "points", "laps",
      "milliseconds", "fastestlap", "rank", "statusid">>

\* leakage_col.lower() in col.lower()
is_matching_col(col, leakage_col) ==
    LET whole == lower(col)
        part == lower(leakage_col)
    IN  \E i \in 1..(Len(whole) - Len(part) + 1) :
            SubSeq(whole, i, i + Len(part) - 1) = part

\* the column indexes of the tables given to get_feature_columns: distinct names
ColumnIndexes ==
    {cols \in SeqsUpTo(ColumnNames, MaxCols) :
        \A i, j \in 1..Len(cols) : i # j => cols[i] # cols[j]}

GetFeatureColumns ==
    /\ Idle
    /\ \E columns \in ColumnIndexes :
          LET got == get_feature_columns(DataFrame(columns, <<>>))
          IN  call' = Returned("get_feature_columns",
                          [columns |-> columns,
                           feature_cols |-> got.feature_cols,
                           target_cols |-> got.target_cols])
    /\ UNCHANGED <<environ, config, warehouse, models_dir, output_dir, cache, session, parquet_dir>>

InitColumns ==
    /\ environ = SampleEnviron
    /\ config = ConfigFromEnv(environ)
    /\ warehouse = [status |-> "ok", table |-> DataFrame(FeatureTableColumns, <<>>),
                    dim_tables |-> FullDimTables]
    /\ models_dir = <<>>
    /\ output_dir = <<>>
    /\ call = NoCall
    /\ cache = NoCache
    /\ session = NoSessions
    /\ parquet_dir = NoParquetDir

NextColumns == GetFeatureColumns

SpecColumns == InitColumns /\ [][NextColumns]_vars

\* C7: whatever the table, feature_columns holds none of result_id, race_id,
\* driver_id, constructor_id, circuit_id, year, round, race_date, target_top_10,
\* target_dnf.
C7_NoExcludedColumnIsAFeature ==
    call.op = "get_feature_columns" =>
        Range(call.value.feature_cols)
            \cap {"result_id", "race_id", "driver_id", "constructor_id", "circuit_id",
                  "year", "round", "race_date", "target_top_10", "target_dnf"} = {}

\* a table with a key, a target and a feature column: only the feature is kept
C7_Witness ==
    /\ call.op = "get_feature_columns"
    /\ call.value.columns = <<"year", "grid_position", "target_dnf">>
    /\ call.value.feature_cols = <<"grid_position">>

\* the place of a name in a column index
Position(columns, name) == CHOOSE k \in 1..Len(columns) : columns[k] = name

C14_OutcomeColumnsAreNoFeatures ==
    (/\ call.op = "get_feature_columns"
     /\ {"is_top_10", "is_dnf"} \subseteq Range(call.value.columns))
        => Range(call.value.feature_cols) \cap {"is_top_10", "is_dnf"} = {}

\* C15: whatever the table, no name of feature_columns contains, letter case
\* aside, final_position, position, points, laps, milliseconds, fastestlap, rank
\* or statusid.
C15_NoLeakageNameIsAFeature ==
    call.op = "get_feature_columns" =>
        \A col \in Range(call.value.feature_cols) :
            \A leakage_col \in Range(leakage_indicators) :
                ~ is_matching_col(col, leakage_col)

\* C16: every name of feature_columns is a numeric column: a text column of the
\* table, status for one, is not in feature_columns.
C16_FeaturesAreNumeric ==
    call.op = "get_feature_columns" =>
        \A col \in Range(call.value.feature_cols) : is_numeric_dtype(col)

----------------------------------------------------------------------------
(* The split subsystem: a program run imports the configuration, then      *)
(* exports the features of the warehouse.                                  *)

InitSplit ==
    /\ environ \in Environments
    /\ config = ConfigUnloaded
    /\ warehouse \in Warehouses
    /\ models_dir = <<>>
    /\ output_dir = <<>>
    /\ call = NoCall
    /\ cache = NoCache
    /\ session = NoSessions
    /\ parquet_dir = NoParquetDir

NextSplit ==
    \/ LoadConfig
    \/ ExportFeatures

SpecSplit == InitSplit /\ [][NextSplit]_vars

----------------------------------------------------------------------------
(* Properties of the split subsystem *)

\* export_features has returned its three splits
SplitsReturned == call.op = "export_features" /\ call.status = "returned"

InSplit(row, split) == row \in Range(split.rows)

\* the splits of call.value that hold the row
SplitsHolding(row) == {name \in {"train", "val", "test"} : InSplit(row, call.value[name])}

\* the split precondition of the specification: train_end_year < min(val_years),
\* max(val_years) <= min(test_years), val_years and test_years disjoint
ValidSplitConfig(cfg) ==
    /\ cfg.TRAIN_END_YEAR < Min(Range(cfg.VAL_YEARS))
    /\ Max(Range(cfg.VAL_YEARS)) <= Min(Range(cfg.TEST_YEARS))
    /\ Range(cfg.VAL_YEARS) \cap Range(cfg.TEST_YEARS) = {}

\* C1: under every configuration the program loads, each row of the feature table
\* is in at most one of the returned train, val and test splits, and a row whose
\* year is <= TRAIN_END_YEAR is in neither val nor test.
C1_SplitsDisjoint ==
    SplitsReturned =>
        \A row \in Range(warehouse.table.rows) :
            /\ Cardinality(SplitsHolding(row)) <= 1
            /\ row.year <= config.TRAIN_END_YEAR => SplitsHolding(row) \subseteq {"train"}

\* C2: under every configuration the program loads, every train row has
\* year <= TRAIN_END_YEAR, TRAIN_END_YEAR is below the year of every val row, and
\* no val year exceeds a test year.
C2_SplitsOrdered ==
    SplitsReturned =>
        /\ \A r \in Range(call.value.train.rows) : r.year <= config.TRAIN_END_YEAR
        /\ \A r \in Range(call.value.val.rows) : config.TRAIN_END_YEAR < r.year
        /\ \A v \in Range(call.value.val.rows) :
              \A t \in Range(call.value.test.rows) : v.year <= t.year

\* C3: a split configuration that violates the precondition is never loaded: the
\* import fails, so export_features never sees such a configuration.
C3_InvalidConfigNeverLoaded ==
    config.status = "loaded" => ValidSplitConfig(config)

\* C11: when the feature table has no rows or lacks the year column,
\* export_features ends in an error; it never returns three empty splits.
C11_EmptyTableIsAnError ==
    (/\ call.op = "export_features"
     /\ warehouse.status = "ok"
     /\ \/ Len(warehouse.table.rows) = 0
        \/ "year" \notin Range(warehouse.table.columns))
        => call.status = "raised"

\* C12: a row is in none of the three splits exactly when its year is above
\* TRAIN_END_YEAR and in neither VAL_YEARS nor TEST_YEARS, and two rows of the
\* same year are in the same splits.
C12_MembershipByYearAlone ==
    SplitsReturned =>
        /\ \A row \in Range(warehouse.table.rows) :
              SplitsHolding(row) = {}
                  <=> /\ row.year > config.TRAIN_END_YEAR
                      /\ row.year \notin Range(config.VAL_YEARS)
                      /\ row.year \notin Range(config.TEST_YEARS)
        /\ \A r1, r2 \in Range(warehouse.table.rows) :
              r1.year = r2.year => SplitsHolding(r1) = SplitsHolding(r2)

\* two results of the training end year are both in train, while a result of a
\* later, unlisted year is in no split
C12_Witness ==
    /\ SplitsReturned
    /\ \E r1, r2 \in Range(warehouse.table.rows) :
          /\ r1.result_id # r2.result_id
          /\ r1.year = config.TRAIN_END_YEAR
          /\ r2.year > config.TRAIN_END_YEAR
          /\ SplitsHolding(r1) = {"train"}
          /\ SplitsHolding(r2) = {}

----------------------------------------------------------------------------
(* schema_checks.py *)

\* the tables that may deviate from a valid parquet directory
MaxFaults == 2

\* the required columns a parquet file may lack, counted from the first in
\* sorted order
MaxMissing == 2

\* table_name -> required columns
REQUIRED_SCHEMAS ==
    [races |-> {"raceId", "year", "round", "circuitId", "name", "date"},
     results |-> {"resultId", "raceId", "driverId", "constructorId", "grid", "position",
                  "positionOrder", "points", "laps", "statusId"},
     qualifying |-> {"qualifyId", "raceId", "driverId", "constructorId", "position"},
     drivers |-> {"driverId", "driverRef", "code", "forename", "surname", "nationality"},
     constructors |-> {"constructorId", "constructorRef", "name", "nationality"},
     circuits |-> {"circuitId", "circuitRef", "name", "location", "country"},
     status |-> {"statusId", "status"}]

\* REQUIRED_SCHEMAS.items(): the tables in the order of the dict
required_tables ==
    <<"races", "results", "qualifying", "drivers", "constructors", "circuits", "status">>

OPTIONAL_TABLES ==
    {"sprint_results", "pit_stops", "lap_times", "constructor_results",
     "constructor_standings", "driver_standings", "seasons"}

\* str.upper() on the letters of the column names
upper(text) ==
    LET upper_char(c) ==
            IF \E k \in 1..Len(ascii_lowercase) : SubSeq(ascii_lowercase, k, k) = c
            THEN LET k == CHOOSE k \in 1..Len(ascii_lowercase) :
                              SubSeq(ascii_lowercase, k, k) = c
                 IN  SubSeq(ascii_uppercase, k, k)
            ELSE c
        RECURSIVE from(_)
        from(i) == IF i > Len(text) THEN ""
                   ELSE upper_char(SubSeq(text, i, i)) \o from(i + 1)
    IN  from(1)

\* a < b for two strings of lower-case letters
str_lt(a, b) ==
    LET ord(c) == CHOOSE k \in 1..Len(ascii_lowercase) : SubSeq(ascii_lowercase, k, k) = c
        RECURSIVE from(_)
        from(i) == IF i > Len(a) THEN i <= Len(b)
                   ELSE IF i > Len(b) THEN FALSE
                   ELSE IF SubSeq(a, i, i) = SubSeq(b, i, i) THEN from(i + 1)
                   ELSE ord(SubSeq(a, i, i)) < ord(SubSeq(b, i, i))
    IN  from(1)

\* f"{table_name}.parquet"
parquet_name(table_name) == table_name \o ".parquet"

\* the parquet file of a table with every required column, as written
AsRequired == [kind |-> "lacking", lacking |-> 0]

\* how the parquet file of a table may deviate: missing, not a parquet file, or
\* a parquet file with the required columns in lower case, in upper case, or
\* without the first `lacking` of them
FileKinds ==
    {[kind |-> k, lacking |-> 0] : k \in {"absent", "unreadable", "lower", "upper"}}
        \cup {[kind |-> "lacking", lacking |-> n] : n \in 1..MaxMissing}

FileOf(table_name, file_kind) ==
    LET required == REQUIRED_SCHEMAS[table_name]
        lower_cols == {lower(col) : col \in required}
        names == [k \in 1..Cardinality(lower_cols) |->
                     CHOOSE v \in lower_cols :
                         Cardinality({u \in lower_cols : str_lt(u, v)}) = k - 1]
        lacked == {names[k] : k \in 1..Min({file_kind.lacking, Len(names)})}
    IN  IF file_kind.kind = "unreadable" THEN [readable |-> FALSE, columns |-> {}]
        ELSE IF file_kind.kind = "lower"
        THEN [readable |-> TRUE, columns |-> {lower(col) : col \in required}]
        ELSE IF file_kind.kind = "upper"
        THEN [readable |-> TRUE, columns |-> {upper(col) : col \in required}]
        ELSE [readable |-> TRUE, columns |-> {col \in required : lower(col) \notin lacked}]

\* the file of an optional table
OptionalFile == [readable |-> TRUE, columns |-> {"raceId"}]

\* FileOf for every required table and every kind of file
Files == [table_name \in Range(required_tables),
          file_kind \in FileKinds \cup {AsRequired} |->
             FileOf(table_name, file_kind)]

\* the column names met in the parquet files and in REQUIRED_SCHEMAS
Names ==
    OptionalFile.columns
        \cup UNION {REQUIRED_SCHEMAS[table_name] : table_name \in Range(required_tables)}
        \cup UNION {Files[table_name, file_kind].columns :
                       table_name \in Range(required_tables),
                       file_kind \in FileKinds \cup {AsRequired}}

\* name.lower() for each of these names
name_lower == [name \in Names |-> lower(name)]

\* a < b for each two of the lower-case names
name_lt == [a \in {name_lower[name] : name \in Names},
            b \in {name_lower[name] : name \in Names} |-> str_lt(a, b)]

\* sorted(names) for a set of lower-case names
sorted(names) ==
    [k \in 1..Cardinality(names) |->
        CHOOSE v \in names : Cardinality({u \in names : name_lt[u, v]}) = k - 1]

\* validate_parquet_schema(parquet_path, required_columns) on the files of a
\* directory: pq.ParquetFile raises on a path that is no file and on a file
\* that is no parquet file, and the except answers (False, [])
validate_parquet_schema(files, parquet_path, required_columns) ==
    IF parquet_path \notin DOMAIN files \/ ~files[parquet_path].readable
    THEN [is_valid |-> FALSE, missing |-> <<>>, logged |-> <<"Failed to read schema">>]
    ELSE LET actual_columns_lower == {name_lower[name] :
                                         name \in files[parquet_path].columns}
             required_columns_lower == {name_lower[col] : col \in required_columns}
             missing == sorted(required_columns_lower \ actual_columns_lower)
         IN  [is_valid |-> Len(missing) = 0, missing |-> missing, logged |-> <<>>]

\* the loop of validate_all_schemas that skips a required table without a file
after_missing_table_skipped(acc, table_name) == acc

\* `if not parquet_path.exists()`: the error logged, all_valid = False, continue
after_missing_table(acc, table_name) ==
    [acc EXCEPT !.all_valid = FALSE,
                !.errors = Append(@, [table |-> table_name,
                                      error |-> "Required table missing",
                                      missing |-> <<>>])]

\* validate_all_schemas(parquet_dir): all_valid, with validated_count and the
\* errors logged for the required tables
validate_all_schemas(dir) ==
    LET RECURSIVE loop(_, _)
        loop(k, acc) ==
            IF k > Len(required_tables) THEN acc
            ELSE LET table_name == required_tables[k]
                     checked == validate_parquet_schema(dir.files, parquet_name(table_name),
                                                        REQUIRED_SCHEMAS[table_name])
                 IN  IF parquet_name(table_name) \notin DOMAIN dir.files
                     THEN loop(k + 1, after_missing_table(acc, table_name))
                     ELSE IF checked.is_valid
                     THEN loop(k + 1, [acc EXCEPT !.validated_count = @ + 1])
                     ELSE loop(k + 1,
                               [acc EXCEPT !.all_valid = FALSE,
                                           !.errors = Append(@, [table |-> table_name,
                                                                 error |-> "Missing columns",
                                                                 missing |-> checked.missing])])
    IN  IF ~dir.exists
        THEN [all_valid |-> FALSE, validated_count |-> 0,
              errors |-> <<[table |-> "", error |-> "Parquet directory not found",
                            missing |-> <<>>]>>]
        ELSE loop(1, [all_valid |-> TRUE, validated_count |-> 0, errors |-> <<>>])

\* the directory where the tables `faults` are as faults[table] says, the other
\* required tables are valid and the optional tables `optional` are present
ParquetDir(faults, optional) ==
    LET RECURSIVE required_from(_)
        required_from(k) ==
            IF k > Len(required_tables) THEN <<>>
            ELSE LET table_name == required_tables[k]
                     file_kind == IF table_name \in DOMAIN faults THEN faults[table_name]
                                  ELSE AsRequired
                 IN  IF file_kind.kind = "absent" THEN required_from(k + 1)
                     ELSE (parquet_name(table_name) :> Files[table_name, file_kind])
                              @@ required_from(k + 1)
    IN  [exists |-> TRUE,
         files |-> [name \in {parquet_name(t) : t \in optional} |-> OptionalFile]
                       @@ required_from(1)]

\* the parquet directories: none, or one where at most MaxFaults required
\* tables deviate, with none or all of the optional tables
ParquetDirs ==
    {NoParquetDir}
        \cup UNION {{ParquetDir(faults, optional) :
                        faults \in [faulty -> FileKinds],
                        optional \in {{}, OPTIONAL_TABLES}} :
                    faulty \in {tables \in SUBSET Range(required_tables) :
                                   Cardinality(tables) <= MaxFaults}}

\* validate_parquet_schema called on a file of the directory, or on a path that
\* is no file, with the required columns of the table of the file and with
\* those of races
ValidateParquetSchema ==
    /\ Idle
    /\ parquet_dir.exists
    /\ \E parquet_path \in DOMAIN parquet_dir.files \cup {"incomplete.parquet"} :
          \E table_name \in {t \in Range(required_tables) :
                                t = "races" \/ parquet_name(t) = parquet_path} :
              LET checked == validate_parquet_schema(parquet_dir.files, parquet_path,
                                                     REQUIRED_SCHEMAS[table_name])
              IN  call' = Returned("validate_parquet_schema",
                              [parquet_path |-> parquet_path,
                               required_columns |-> REQUIRED_SCHEMAS[table_name],
                               is_valid |-> checked.is_valid,
                               missing_columns |-> checked.missing])
    /\ UNCHANGED <<environ, config, warehouse, models_dir, output_dir, cache, session,
                   parquet_dir>>

ValidateAllSchemas ==
    /\ Idle
    /\ call' = Returned("validate_all_schemas", validate_all_schemas(parquet_dir))
    /\ UNCHANGED <<environ, config, warehouse, models_dir, output_dir, cache, session,
                   parquet_dir>>

InitSchema ==
    /\ environ = SampleEnviron
    /\ config = ConfigFromEnv(environ)
    /\ warehouse \in {w \in Warehouses : w.status # "ok"}
    /\ models_dir = <<>>
    /\ output_dir = <<>>
    /\ call = NoCall
    /\ cache = NoCache
    /\ session = NoSessions
    /\ parquet_dir \in ParquetDirs

NextSchema ==
    \/ ValidateParquetSchema
    \/ ValidateAllSchemas

SpecSchema == InitSchema /\ [][NextSchema]_vars

\* the file of the call is there and is a parquet file
FileRead ==
    /\ call.value.parquet_path \in DOMAIN parquet_dir.files
    /\ parquet_dir.files[call.value.parquet_path].readable

\* C24: validate_parquet_schema compares the names without regard to case, and
\* its result is invalid exactly when the list of missing columns it returns has
\* an entry, for a file that can be read and for one that cannot
C24_InvalidExactlyWhenColumnsAreNamed ==
    call.op = "validate_parquet_schema" =>
        /\ call.value.is_valid = FALSE <=> Len(call.value.missing_columns) > 0
        /\ FileRead =>
              (call.value.is_valid
                  <=> \A col \in call.value.required_columns :
                         \E name \in parquet_dir.files[call.value.parquet_path].columns :
                             lower(name) = lower(col))

\* the parquet file of the required table is in the directory, can be read and
\* has each required column, the case of the letters apart
TableValid(dir, table_name) ==
    /\ dir.exists
    /\ parquet_name(table_name) \in DOMAIN dir.files
    /\ dir.files[parquet_name(table_name)].readable
    /\ \A col \in REQUIRED_SCHEMAS[table_name] :
          \E name \in dir.files[parquet_name(table_name)].columns :
              name_lower[name] = name_lower[col]

\* the directory with the file of the optional table taken away if it is there,
\* and put there if it is not
Toggled(dir, table_name) ==
    IF parquet_name(table_name) \in DOMAIN dir.files
    THEN [dir EXCEPT !.files = [name \in DOMAIN dir.files \ {parquet_name(table_name)} |->
                                   dir.files[name]]]
    ELSE [dir EXCEPT !.files = (parquet_name(table_name) :> OptionalFile) @@ dir.files]

\* C25: validate_all_schemas returns, and it returns True exactly when every
\* table of REQUIRED_SCHEMAS has its parquet file with all its required columns;
\* every required table that fails is reported, whatever failed before it; and
\* putting or removing the file of an optional table leaves the result as it is
C25_AllValidExactlyWhenEveryRequiredTableIs ==
    call.op = "validate_all_schemas" =>
        /\ call.status = "returned"
        /\ call.value.all_valid
              <=> \A table_name \in DOMAIN REQUIRED_SCHEMAS :
                     TableValid(parquet_dir, table_name)
        /\ parquet_dir.exists =>
              /\ {e.table : e \in Range(call.value.errors)}
                    = {table_name \in DOMAIN REQUIRED_SCHEMAS :
                          ~TableValid(parquet_dir, table_name)}
              /\ call.value.validated_count
                    = Cardinality({table_name \in DOMAIN REQUIRED_SCHEMAS :
                                      TableValid(parquet_dir, table_name)})
              /\ \A table_name \in OPTIONAL_TABLES :
                    validate_all_schemas(Toggled(parquet_dir, table_name)).all_valid
                        = call.value.all_valid

\* the file of races is missing and the file of status lacks a column: the call
\* returned False and reported both, with the optional tables present
C25_Witness ==
    /\ call.op = "validate_all_schemas"
    /\ call.status = "returned"
    /\ parquet_dir.exists
    /\ parquet_name("races") \notin DOMAIN parquet_dir.files
    /\ parquet_name("seasons") \in DOMAIN parquet_dir.files
    /\ call.value.all_valid = FALSE
    /\ Len(call.value.errors) = 2
    /\ call.value.errors[1] = [table |-> "races", error |-> "Required table missing",
                               missing |-> <<>>]
    /\ call.value.errors[2] = [table |-> "status", error |-> "Missing columns",
                               missing |-> <<"status">>]

\* the tables test_required_schemas_completeness expects
expected_tables ==
    {"races", "results", "drivers", "constructors", "circuits", "qualifying", "status",
     "constructor_results"}

\* C26: the REQUIRED_SCHEMAS that validate_all_schemas goes through has an entry
\* with at least one required column for each of races, results, drivers,
\* constructors, circuits, qualifying, status and constructor_results
C26_RequiredSchemasAreComplete ==
    call.op = "validate_all_schemas" =>
        \A table_name \in expected_tables :
            /\ table_name \in DOMAIN REQUIRED_SCHEMAS
            /\ REQUIRED_SCHEMAS[table_name] # {}

====
